---------------------------- MODULE Spec2Model ----------------------------
(***************************************************************************)
(* Model of the HubSpot summary-note MCP server: the four tool handlers    *)
(* (create, list, update, delete), the body codec, the filter engine and   *)
(* the record store they talk to.                                          *)
(*                                                                         *)
(* Text is modelled by TLA+ strings (Len, SubSeq, Tail and \o work on      *)
(* them in TLC).  Timestamps are whole minutes since the epoch instead of  *)
(* milliseconds: every conversion the handlers apply (UTC date, local      *)
(* weekday, local HH:MM) ignores what is below the minute, and TLC's       *)
(* integers are 32 bits wide.                                              *)
(***************************************************************************)
EXTENDS Integers, Sequences, FiniteSets, TLC

VARIABLES
    store,     \* the engagements of the record store, in the order a page lists them
    nextId,    \* the number the store gives the next engagement it creates
    env,       \* process.env: HUBSPOT_ACCESS_TOKEN and SHARED_CONTACT_ID
    tz,        \* the server's local time zone, minutes east of UTC
    pc,        \* "idle": waiting for a tool call; "done": a handler has returned
    request,   \* the tool call being answered: [tool, handler, arguments]
    outage,    \* the store endpoints that answer 500 during this tool call
    result,    \* what the handler returned: [isError, text, results]
    calls,     \* the store calls the handler issued, in order
    before,    \* the store as it was when the handler started
    inflight   \* the update calls whose handlers run side by side, by request slot

vars ==
    <<store, nextId, env, tz, pc, request, outage, result, calls, before, inflight>>

-----------------------------------------------------------------------------
(* JavaScript values *)

\* An optional argument: <<>> is undefined, <<v>> is the value v.
Undefined == <<>>

Some(v) == <<v>>

\* what TruthyStr would be if an argument counted as soon as it is supplied
Supplied(o) == o # Undefined

\* if (s) for an optional string: undefined and "" are falsy.
TruthyStr(o) == o # Undefined /\ o[1] # ""

\* if (n) for an optional number: undefined and 0 are falsy.
TruthyNum(o) == o # Undefined /\ o[1] # 0

Min(a, b) == IF a <= b THEN a ELSE b

-----------------------------------------------------------------------------
(* String.prototype methods *)

CharAt(s, i) == SubSeq(s, i, i)

\* s.startsWith(p)
StartsWith(s, p) == Len(s) >= Len(p) /\ SubSeq(s, 1, Len(p)) = p

\* s.indexOf(p, from), 1-based; 0 when p does not occur at or after from
RECURSIVE IndexFrom(_, _, _)
IndexFrom(s, p, from) ==
    IF from + Len(p) - 1 > Len(s) THEN 0
    ELSE IF SubSeq(s, from, from + Len(p) - 1) = p THEN from
    ELSE IndexFrom(s, p, from + 1)

\* s.indexOf(p), 1-based; 0 when p does not occur
IndexOf(s, p) == IndexFrom(s, p, 1)

\* s.includes(p)
Includes(s, p) == IndexOf(s, p) # 0

\* s.replaceAll(p, r): what Replace would be if it replaced every occurrence
RECURSIVE ReplaceAll(_, _, _)
ReplaceAll(s, p, r) ==
    LET i == IndexOf(s, p)
    IN  IF i = 0 THEN s
        ELSE SubSeq(s, 1, i - 1) \o r \o ReplaceAll(SubSeq(s, i + Len(p), Len(s)), p, r)

\* s.replace(p, r) with a string pattern: only the first occurrence is replaced
Replace(s, p, r) ==
    LET i == IndexOf(s, p)
    IN  IF i = 0 THEN s
        ELSE SubSeq(s, 1, i - 1) \o r \o SubSeq(s, i + Len(p), Len(s))

\* s.split(sep) for a non-empty separator
RECURSIVE Split(_, _)
Split(s, sep) ==
    LET i == IndexOf(s, sep)
    IN  IF i = 0 THEN <<s>>
        ELSE <<SubSeq(s, 1, i - 1)>> \o Split(SubSeq(s, i + Len(sep), Len(s)), sep)

UpperCaseLetters == "ABCDEFGHIJKLMNOPQRSTUVWXYZ"

LowerCaseLetters == "abcdefghijklmnopqrstuvwxyz"

\* the lower-case letter of each upper-case letter
LowerOf ==
    [c \in {CharAt(UpperCaseLetters, i) : i \in 1..26} |->
        CharAt(LowerCaseLetters, IndexOf(UpperCaseLetters, c))]

LowerChar(c) == IF c \in DOMAIN LowerOf THEN LowerOf[c] ELSE c

\* s.toLowerCase()
RECURSIVE ToLowerCase(_)
ToLowerCase(s) ==
    IF s = "" THEN "" ELSE LowerChar(CharAt(s, 1)) \o ToLowerCase(Tail(s))

\* The printable characters in code-unit order (the quotes, the backquote and
\* the backslash are left out; no modelled text holds them).  Only the order
\* is used.
CodeUnitOrder ==
    " !#$%&()*+,-./0123456789:;<=>?@ABCDEFGHIJKLMNOPQRSTUVWXYZ[]^_abcdefghijklmnopqrstuvwxyz{|}~"

CodeOf ==
    [c \in {CharAt(CodeUnitOrder, i) : i \in 1..Len(CodeUnitOrder)} |->
        IndexOf(CodeUnitOrder, c)]

\* the rank of a character; control characters such as the newline come first
CharCode(c) == IF c \in DOMAIN CodeOf THEN CodeOf[c] ELSE 0

\* a <= b for strings: the comparison of JavaScript's relational operators,
\* code unit by code unit, a proper prefix being smaller
RECURSIVE StrLeq(_, _)
StrLeq(a, b) ==
    IF a = "" THEN TRUE
    ELSE IF b = "" THEN FALSE
    ELSE IF CharAt(a, 1) = CharAt(b, 1) THEN StrLeq(Tail(a), Tail(b))
    ELSE CharCode(CharAt(a, 1)) < CharCode(CharAt(b, 1))

Digits == "0123456789"

\* n.toString() for a natural number
RECURSIVE NumberToString(_)
NumberToString(n) ==
    IF n < 10 THEN CharAt(Digits, n + 1)
    ELSE NumberToString(n \div 10) \o CharAt(Digits, (n % 10) + 1)

\* s.padStart(width, "0")
RECURSIVE PadStart(_, _)
PadStart(s, width) == IF Len(s) >= width THEN s ELSE PadStart("0" \o s, width)

\* array.join(sep)
RECURSIVE Join(_, _)
Join(list, sep) ==
    IF list = <<>> THEN ""
    ELSE IF Len(list) = 1 THEN list[1]
    ELSE list[1] \o sep \o Join(Tail(list), sep)

-----------------------------------------------------------------------------
(* Date.prototype methods; ts is in minutes since the epoch *)

\* the day number (days since 1970-01-01) of an instant of the UTC time line
DayNumber(minutes) == minutes \div (24 * 60)

\* days since the epoch -> <<year, month, day>> of the proleptic Gregorian calendar
CivilFromDays(days) ==
    LET z   == days + 719468
        era == z \div 146097
        doe == z - era * 146097
        yoe == (doe - doe \div 1460 + doe \div 36524 - doe \div 146096) \div 365
        doy == doe - (365 * yoe + yoe \div 4 - yoe \div 100)
        mp  == (5 * doy + 2) \div 153
        d   == doy - (153 * mp + 2) \div 5 + 1
        m   == IF mp < 10 THEN mp + 3 ELSE mp - 9
        y   == yoe + era * 400 + (IF m <= 2 THEN 1 ELSE 0)
    IN  <<y, m, d>>

\* new Date(ts).toISOString(): "YYYY-MM-DDTHH:MM:SS.mmmZ", always in UTC
ToISOString(ts) ==
    LET ymd == CivilFromDays(DayNumber(ts))
        hh  == (ts % (24 * 60)) \div 60
        mm  == ts % 60
    IN  PadStart(NumberToString(ymd[1]), 4) \o "-" \o
        PadStart(NumberToString(ymd[2]), 2) \o "-" \o
        PadStart(NumberToString(ymd[3]), 2) \o "T" \o
        PadStart(NumberToString(hh), 2) \o ":" \o
        PadStart(NumberToString(mm), 2) \o ":00.000Z"

\* new Date(ts).getDay(): the weekday in the server's time zone, 0 = Sunday
\* (1970-01-01 was a Thursday)
GetDay(ts, zone) == (DayNumber(ts + zone) + 4) % 7

\* new Date(ts).getHours() and getMinutes(), in the server's time zone
GetHours(ts, zone) == ((ts + zone) % (24 * 60)) \div 60

GetMinutes(ts, zone) == (ts + zone) % 60

-----------------------------------------------------------------------------
(* The record store (HubSpot engagements API) *)

\* the page size every listing asks for: .../engagements/paged?limit=100
PageLimit == 100

\* GET /engagements/paged?limit=100: at most one page, in the store's order
ListPage(s) == SubSeq(s, 1, Min(Len(s), PageLimit))

HasId(s, id) == \E i \in 1..Len(s) : s[i].id = id

RecordOf(s, id) == s[CHOOSE i \in 1..Len(s) : s[i].id = id]

\* one store call as the handlers see it: its HTTP status.  `down` is the set
\* of endpoints that answer 500 during this tool call; a call on an id the
\* store does not hold answers 404.
StatusOf(s, down, call, id) ==
    IF call \in down THEN 500
    ELSE IF call \in {"getById", "updateBody", "delete"} /\ ~HasId(s, id) THEN 404
    ELSE 200

\* an endpoint that answers 200 with a body that lacks the fields the handlers
\* read (data.results, getData.metadata, data.engagement), as a member of `down`
EmptyReply(call) == call \o ":{}"

RepliesEmpty(down, call) == EmptyReply(call) \in down

\* the message of the TypeError that reading `field` of undefined raises
TypeErrorReading(field) ==
    "Cannot read properties of undefined (reading '" \o field \o "')"

StatusMessage(status) ==
    IF status = 404 THEN "resource not found" ELSE "internal error"

\* new Error(`HTTP-Code: ${res.status}\nMessage: ${data.message}`).message
HttpError(status) ==
    "HTTP-Code: " \o NumberToString(status) \o "\nMessage: " \o StatusMessage(status)

Call(name, id) == [call |-> name, id |-> id]

\* PUT /engagements/{id} with { metadata: { body } }
UpdateBody(s, id, body) ==
    [i \in 1..Len(s) |-> IF s[i].id = id THEN [s[i] EXCEPT !.body = body] ELSE s[i]]

\* what DeleteRecord would be if the store dropped its oldest engagement
DeleteOldest(s, id) == Tail(s)

\* DELETE /engagements/{id}
DeleteRecord(s, id) == SelectSeq(s, LAMBDA r : r.id # id)

-----------------------------------------------------------------------------
(* Results of a tool call *)

Success(text, results) == [isError |-> FALSE, text |-> text, results |-> results]

\* what Failure would be if the catch block returned its text without the flag
Unflagged(text) == [isError |-> FALSE, text |-> text, results |-> <<>>]

Failure(text) == [isError |-> TRUE, text |-> text, results |-> <<>>]

\* what a handler leaves behind: its result, the store calls it issued, the store
Outcome(res, issued, s) == [result |-> res, calls |-> issued, store |-> s]

\* what checkHubSpotConfig would be if it looked at the access token alone
checkAccessToken(e) ==
    IF e.HUBSPOT_ACCESS_TOKEN = "" THEN <<"HUBSPOT_ACCESS_TOKEN">> ELSE <<>>

\* checkHubSpotConfig(): the names of the settings that are missing
checkHubSpotConfig(e) ==
    (IF e.HUBSPOT_ACCESS_TOKEN = "" THEN <<"HUBSPOT_ACCESS_TOKEN">> ELSE <<>>) \o
    (IF e.SHARED_CONTACT_ID = "" THEN <<"SHARED_CONTACT_ID">> ELSE <<>>)

MissingConfig(e) ==
    Failure("Error: Missing required environment variables: " \o
            Join(checkHubSpotConfig(e), ", "))

-----------------------------------------------------------------------------
(* Body codec *)

\* what noteBody would be if the labels ended at the colon, without the space
noteBodyWithoutSpace(title, summary, author) ==
    "Title:" \o title \o "\nSummary:" \o summary \o "\nAuthor:" \o author

\* `Title: ${title}\nSummary: ${summary}\nAuthor: ${author}`
noteBody(title, summary, author) ==
    "Title: " \o title \o "\nSummary: " \o summary \o "\nAuthor: " \o author

\* lines.forEach(...): the line parser of the update handler; each line that
\* starts with a label overwrites that label's current value
RECURSIVE ParseLines(_, _)
ParseLines(lines, current) ==
    IF lines = <<>> THEN current
    ELSE LET line == Head(lines)
             next ==
                 IF StartsWith(line, "Title: ")
                 THEN [current EXCEPT !.title = Replace(line, "Title: ", "")]
                 ELSE IF StartsWith(line, "Summary: ")
                 THEN [current EXCEPT !.summary = Replace(line, "Summary: ", "")]
                 ELSE IF StartsWith(line, "Author: ")
                 THEN [current EXCEPT !.author = Replace(line, "Author: ", "")]
                 ELSE current
         IN  ParseLines(Tail(lines), next)

\* currentTitle, currentSummary, currentAuthor of a body
\* what ParseBody would be if the three fields were read by position: the
\* title from the first line, the summary from the second, the author from
\* the third
ParseBodyByPosition(body) ==
    LET lines == Split(body, "\n")
        at(i, label) == IF i <= Len(lines) THEN Replace(lines[i], label, "") ELSE ""
    IN  [title |-> at(1, "Title: "), summary |-> at(2, "Summary: "),
         author |-> at(3, "Author: ")]

\* what ParseBody would be if the body were taken as one line
ParseBodyUnsplit(body) ==
    ParseLines(<<body>>, [title |-> "", summary |-> "", author |-> ""])

ParseBody(body) ==
    ParseLines(Split(body, "\n"), [title |-> "", summary |-> "", author |-> ""])

\* supplied ?? current: what OrElse would be if only undefined were replaced
OrElseNullish(supplied, current) == IF supplied # Undefined THEN supplied[1] ELSE current

\* supplied || current
OrElse(supplied, current) == IF TruthyStr(supplied) THEN supplied[1] ELSE current

\* newTitle, newSummary, newAuthor
Merge(args, current) ==
    [title   |-> OrElse(args.title, current.title),
     summary |-> OrElse(args.summary, current.summary),
     author  |-> OrElse(args.author, current.author)]

\* updatedBody
updatedBody(args, currentBody) ==
    LET merged == Merge(args, ParseBody(currentBody))
    IN  noteBody(merged.title, merged.summary, merged.author)

-----------------------------------------------------------------------------
(* Filter engine *)

\* the own properties of the dayMap object literal
dayMap ==
    [sunday |-> 0, monday |-> 1, tuesday |-> 2, wednesday |-> 3,
     thursday |-> 4, friday |-> 5, saturday |-> 6]

\* The properties dayMap inherits from Object.prototype.  A property read on
\* an object literal walks the prototype chain, so these keys do not read as
\* undefined.  (Only the all-lowercase ones can be the result of toLowerCase.)
ObjectPrototypeKeys ==
    {"constructor", "__proto__", "hasOwnProperty", "isPrototypeOf",
     "propertyIsEnumerable", "toLocaleString", "toString", "valueOf",
     "__defineGetter__", "__defineSetter__", "__lookupGetter__", "__lookupSetter__"}

\* dayMap[key], as a tagged JavaScript value
DayMapGet(key) ==
    IF key \in DOMAIN dayMap THEN [type |-> "number", value |-> dayMap[key]]
    ELSE IF key \in ObjectPrototypeKeys THEN [type |-> "object", value |-> 0]
    ELSE [type |-> "undefined", value |-> 0]

\* what targetDay would be if the name were looked up as the caller wrote it
targetDayAsWritten(dayOfWeek) == DayMapGet(dayOfWeek)

\* const targetDay = dayMap[dayOfWeek.toLowerCase()]
targetDay(dayOfWeek) == DayMapGet(ToLowerCase(dayOfWeek))

\* n === v for a number n and a tagged value v
StrictEquals(n, v) == v.type = "number" /\ v.value = n

\* what DateMatches would be if it took the calendar date of the server's zone
DateMatchesLocal(r, date) == Split(ToISOString(r.timestamp + tz), "T")[1] = date

\* new Date(ts).toISOString().split("T")[0] === date
DateMatches(r, date) == Split(ToISOString(r.timestamp), "T")[1] = date

\* new Date(ts).getDay() === targetDay
DayMatches(r, day, zone) == StrictEquals(GetDay(r.timestamp, zone), day)

\* const pad = (n) => n.toString().padStart(2, "0")
pad(n) == PadStart(NumberToString(n), 2)

\* `${pad(dateObj.getHours())}:${pad(dateObj.getMinutes())}`
currentTime(r, zone) ==
    pad(GetHours(r.timestamp, zone)) \o ":" \o pad(GetMinutes(r.timestamp, zone))

\* what TimeMatches would be if the two ends of the window were left out
TimeMatchesExclusive(r, range, zone) ==
    /\ StrLeq(range.start, currentTime(r, zone)) /\ range.start # currentTime(r, zone)
    /\ StrLeq(currentTime(r, zone), range.end) /\ range.end # currentTime(r, zone)

\* currentTime >= timeRange.start && currentTime <= timeRange.end
TimeMatches(r, range, zone) ==
    /\ StrLeq(range.start, currentTime(r, zone))
    /\ StrLeq(currentTime(r, zone), range.end)

\* if (timeRange && timeRange.start && timeRange.end)
TimeRangeSet(timeRange) ==
    timeRange # Undefined /\ timeRange[1].start # "" /\ timeRange[1].end # ""

\* if (dayOfWeek) { ... if (targetDay === undefined) throw ... }
DayOfWeekThrows(dayOfWeek) ==
    TruthyStr(dayOfWeek) /\ targetDay(dayOfWeek[1]).type = "undefined"

\* what Filtered would be if the date step were left out
FilteredWithoutDate(records, args, zone) ==
    LET day   == targetDay(args.dayOfWeek[1])
        byDay == IF TruthyStr(args.dayOfWeek)
                 THEN SelectSeq(records, LAMBDA r : DayMatches(r, day, zone))
                 ELSE records
    IN  IF TimeRangeSet(args.timeRange)
        THEN SelectSeq(byDay, LAMBDA r : TimeMatches(r, args.timeRange[1], zone))
        ELSE byDay

\* the three filter steps, in the order the handlers apply them
Filtered(records, args, zone) ==
    LET byDate == IF TruthyStr(args.date)
                  THEN SelectSeq(records, LAMBDA r : DateMatches(r, args.date[1]))
                  ELSE records
        day    == targetDay(args.dayOfWeek[1])
        byDay  == IF TruthyStr(args.dayOfWeek)
                  THEN SelectSeq(byDate, LAMBDA r : DayMatches(r, day, zone))
                  ELSE byDate
    IN  IF TimeRangeSet(args.timeRange)
        THEN SelectSeq(byDay, LAMBDA r : TimeMatches(r, args.timeRange[1], zone))
        ELSE byDay

\* what InsertByTimestamp would be if the sort put a record in front of the
\* records of its own age
InsertBeforeEqual(sorted, r) ==
    LET older == {i \in 1..Len(sorted) : sorted[i].timestamp <= r.timestamp}
        at    == IF older = {} THEN Len(sorted) + 1
                 ELSE CHOOSE i \in older : \A j \in older : i <= j
    IN  SubSeq(sorted, 1, at - 1) \o <<r>> \o SubSeq(sorted, at, Len(sorted))

\* where a stable sort puts r in a list sorted newest first: behind every
\* record that is not older than r
InsertByTimestamp(sorted, r) ==
    LET older == {i \in 1..Len(sorted) : sorted[i].timestamp < r.timestamp}
        at    == IF older = {} THEN Len(sorted) + 1
                 ELSE CHOOSE i \in older : \A j \in older : i <= j
    IN  SubSeq(sorted, 1, at - 1) \o <<r>> \o SubSeq(sorted, at, Len(sorted))

\* what SortByTimestampDesc would be if the sort were left out
Unsorted(records) == records

\* results.sort((a, b) => b.engagement.timestamp - a.engagement.timestamp);
\* Array.prototype.sort is stable
RECURSIVE SortByTimestampDesc(_)
SortByTimestampDesc(records) ==
    IF records = <<>> THEN <<>>
    ELSE InsertByTimestamp(SortByTimestampDesc(SubSeq(records, 1, Len(records) - 1)),
                           records[Len(records)])

\* results.slice(0, n) for n > 0
Slice(records, n) == SubSeq(records, 1, Min(n, Len(records)))

-----------------------------------------------------------------------------
(* The tool handlers, each as the outcome of one whole call.                 *)
(* s: the store, e: the environment, zone: the time zone, args: the tool     *)
(* arguments, down: the endpoints that fail during the call.                 *)

\* createSharedSummary / handleCreateSharedSummary; now is new Date().getTime(),
\* n the number the store gives the new engagement
createSharedSummary(s, n, e, args, now, down) ==
    IF checkHubSpotConfig(e) # <<>> THEN Outcome(MissingConfig(e), <<>>, s)
    ELSE
    LET body   == noteBody(args.title, args.summary, args.author)
        id     == NumberToString(n)
        status == StatusOf(s, down, "create", id)
    IN  IF status # 200
        THEN Outcome(Failure("Error creating summary: " \o HttpError(status)),
                     <<Call("create", id)>>, s)
        ELSE IF RepliesEmpty(down, "create")
        THEN Outcome(Failure("Error creating summary: " \o TypeErrorReading("id")),
                     <<Call("create", id)>>,
                     Append(s, [id |-> id, timestamp |-> now, body |-> body]))
        ELSE Outcome(Success("Summary created successfully. Engagement ID: " \o id, <<>>),
                     <<Call("create", id)>>,
                     Append(s, [id |-> id, timestamp |-> now, body |-> body]))

\* the end of getSummaries (tools/get_summaries.ts): truncate, or reject a
\* negative limit
LimitStep(sorted, limit) ==
    IF TruthyNum(limit) /\ limit[1] > 0 THEN Success("", Slice(sorted, limit[1]))
    ELSE IF TruthyNum(limit) /\ limit[1] < 1
    THEN Failure("Error retrieving summaries: " \o
                 "Limit must be a positive number greater than 0")
    ELSE Success("", sorted)

\* the end of handleGetSummaries (the single-file server): truncate only
HandleLimitStep(sorted, limit) ==
    IF TruthyNum(limit) /\ limit[1] > 0 THEN Success("", Slice(sorted, limit[1]))
    ELSE Success("", sorted)

\* the TypeError of the single-file server's handlers when data.results is
\* undefined: raised by the first filter that is applied, else by the sort
EmptyPageError(args) ==
    TypeErrorReading(IF \/ TruthyStr(args.date)
                        \/ TruthyStr(args.dayOfWeek)
                        \/ TimeRangeSet(args.timeRange)
                     THEN "filter" ELSE "sort")

\* the body both listing handlers share; strict tells which of the two it is:
\* getSummaries logs data.results.length before it filters and rejects a
\* negative limit, handleGetSummaries does neither
ListWith(s, e, zone, args, down, strict) ==
    IF checkHubSpotConfig(e) # <<>> THEN Outcome(MissingConfig(e), <<>>, s)
    ELSE
    LET status == StatusOf(s, down, "listPage", "")
        issued == <<Call("listPage", "")>>
    IN  IF status # 200
        THEN Outcome(Failure("Error retrieving summaries: " \o HttpError(status)),
                     issued, s)
        ELSE IF RepliesEmpty(down, "listPage") /\ strict
        THEN Outcome(Failure("Error retrieving summaries: " \o TypeErrorReading("length")),
                     issued, s)
        ELSE IF /\ RepliesEmpty(down, "listPage")
                /\ TruthyStr(args.date) \/ ~DayOfWeekThrows(args.dayOfWeek)
        THEN Outcome(Failure("Error retrieving summaries: " \o EmptyPageError(args)),
                     issued, s)
        ELSE IF DayOfWeekThrows(args.dayOfWeek)
        THEN Outcome(Failure("Error retrieving summaries: " \o
                             "Invalid dayOfWeek provided: " \o args.dayOfWeek[1]),
                     issued, s)
        ELSE LET sorted == SortByTimestampDesc(Filtered(ListPage(s), args, zone))
             IN  Outcome(IF strict THEN LimitStep(sorted, args.limit)
                         ELSE HandleLimitStep(sorted, args.limit),
                         issued, s)

\* getSummaries (tools/get_summaries.ts)
getSummaries(s, e, zone, args, down) == ListWith(s, e, zone, args, down, TRUE)

\* handleGetSummaries (the single-file server)
handleGetSummaries(s, e, zone, args, down) == ListWith(s, e, zone, args, down, FALSE)

\* body.includes(query.toLowerCase()): what QueryMatches would be if the body
\* were not lower-cased
QueryMatchesCaseSensitive(r, query) == Includes(r.body, ToLowerCase(query))

\* body.toLowerCase().includes(query.toLowerCase())
QueryMatches(r, query) == Includes(ToLowerCase(r.body), ToLowerCase(query))

\* the candidates of an update by query, newest first
candidates(s, query) ==
    SortByTimestampDesc(SelectSeq(ListPage(s), LAMBDA r : QueryMatches(r, query)))

\* what UpdateTarget would be if a read that failed were tried once more
UpdateTargetRetrying(s, args, down, id, issued) ==
    LET getStatus == StatusOf(s, down, "getById", id)
        putStatus == StatusOf(s, down, "updateBody", id)
        getCalls  == Append(issued, Call("getById", id))
        putCalls  == Append(getCalls, Call("updateBody", id))
    IN  IF getStatus # 200
        THEN Outcome(Failure("Error updating summary: " \o HttpError(getStatus)),
                     Append(getCalls, Call("getById", id)), s)
        ELSE IF RepliesEmpty(down, "getById")
        THEN Outcome(Failure("Error updating summary: " \o TypeErrorReading("body")),
                     getCalls, s)
        ELSE IF putStatus # 200
        THEN Outcome(Failure("Error updating summary: " \o HttpError(putStatus)),
                     putCalls, s)
        ELSE IF RepliesEmpty(down, "updateBody")
        THEN Outcome(Failure("Error updating summary: " \o TypeErrorReading("id")),
                     putCalls,
                     UpdateBody(s, id, updatedBody(args, RecordOf(s, id).body)))
        ELSE Outcome(Success("Summary updated successfully. Engagement ID: " \o id, <<>>),
                     putCalls,
                     UpdateBody(s, id, updatedBody(args, RecordOf(s, id).body)))

\* the part of updateSharedSummary after targetId is known: read, merge, write
UpdateTarget(s, args, down, id, issued) ==
    LET getStatus == StatusOf(s, down, "getById", id)
        putStatus == StatusOf(s, down, "updateBody", id)
        getCalls  == Append(issued, Call("getById", id))
        putCalls  == Append(getCalls, Call("updateBody", id))
    IN  IF getStatus # 200
        THEN Outcome(Failure("Error updating summary: " \o HttpError(getStatus)),
                     getCalls, s)
        ELSE IF RepliesEmpty(down, "getById")
        THEN Outcome(Failure("Error updating summary: " \o TypeErrorReading("body")),
                     getCalls, s)
        ELSE IF putStatus # 200
        THEN Outcome(Failure("Error updating summary: " \o HttpError(putStatus)),
                     putCalls, s)
        ELSE IF RepliesEmpty(down, "updateBody")
        THEN Outcome(Failure("Error updating summary: " \o TypeErrorReading("id")),
                     putCalls,
                     UpdateBody(s, id, updatedBody(args, RecordOf(s, id).body)))
        ELSE Outcome(Success("Summary updated successfully. Engagement ID: " \o id, <<>>),
                     putCalls,
                     UpdateBody(s, id, updatedBody(args, RecordOf(s, id).body)))

\* updateSharedSummary / handleUpdateSharedSummary
updateSharedSummary(s, e, args, down) ==
    IF checkHubSpotConfig(e) # <<>> THEN Outcome(MissingConfig(e), <<>>, s)
    ELSE IF TruthyStr(args.id) THEN UpdateTarget(s, args, down, args.id[1], <<>>)
    ELSE IF TruthyStr(args.query)
    THEN LET status == StatusOf(s, down, "listPage", "")
             issued == <<Call("listPage", "")>>
             found  == candidates(s, args.query[1])
         IN  IF status # 200
             THEN Outcome(Failure("Error updating summary: " \o HttpError(status)),
                          issued, s)
             ELSE IF RepliesEmpty(down, "listPage")
             THEN Outcome(Failure("Error updating summary: " \o TypeErrorReading("length")),
                          issued, s)
             ELSE IF Len(found) = 0
             THEN Outcome(Failure("Error updating summary: " \o
                                  "No summary found matching the provided query."),
                          issued, s)
             ELSE UpdateTarget(s, args, down, found[1].id, issued)
    ELSE Outcome(Failure("Error updating summary: " \o
                         "Please provide an Engagement ID or a search query " \o
                         "to locate the summary note."),
                 <<>>, s)

\* what candidate would be if it took the end of the sorted list
oldest(sorted, limit) ==
    IF sorted = <<>> THEN <<>> ELSE <<sorted[Len(sorted)]>>

\* const n = (limit && limit > 0) ? limit : 1; results.slice(0, n)
candidate(sorted, limit) ==
    Slice(sorted, IF TruthyNum(limit) /\ limit[1] > 0 THEN limit[1] ELSE 1)

\* the DELETE call of handleDeleteSharedSummary and what follows it
DeleteTarget(s, down, id, issued) ==
    LET status == StatusOf(s, down, "delete", id)
        all    == Append(issued, Call("delete", id))
    IN  IF status # 200
        THEN Outcome(Failure("Error deleting summary: " \o HttpError(status)), all, s)
        ELSE Outcome(Success("Summary deleted successfully. Engagement ID: " \o id, <<>>),
                     all, DeleteRecord(s, id))

\* handleDeleteSharedSummary (the single-file server)
handleDeleteSharedSummary(s, e, zone, args, down) ==
    IF checkHubSpotConfig(e) # <<>> THEN Outcome(MissingConfig(e), <<>>, s)
    ELSE IF TruthyStr(args.id) THEN DeleteTarget(s, down, args.id[1], <<>>)
    ELSE
    LET status == StatusOf(s, down, "listPage", "")
        issued == <<Call("listPage", "")>>
    IN  IF status # 200
        THEN Outcome(Failure("Error deleting summary: " \o HttpError(status)), issued, s)
        ELSE IF /\ RepliesEmpty(down, "listPage")
                /\ TruthyStr(args.date) \/ ~DayOfWeekThrows(args.dayOfWeek)
        THEN Outcome(Failure("Error deleting summary: " \o EmptyPageError(args)),
                     issued, s)
        ELSE IF DayOfWeekThrows(args.dayOfWeek)
        THEN Outcome(Failure("Error deleting summary: " \o
                             "Invalid dayOfWeek provided: " \o args.dayOfWeek[1]),
                     issued, s)
        ELSE LET chosen == candidate(SortByTimestampDesc(Filtered(ListPage(s), args, zone)),
                                     args.limit)
             IN  IF Len(chosen) = 0
                 THEN Outcome(Failure("Error deleting summary: " \o
                                      "No summary found matching the provided filters."),
                              issued, s)
                 ELSE DeleteTarget(s, down, chosen[1].id, issued)

-----------------------------------------------------------------------------
(* The server as a state machine: one tool call at a time *)

NoRequest == [tool |-> "none", handler |-> "none"]

NoResult == [isError |-> FALSE, text |-> "", results |-> <<>>]

\* a handler runs from the tool call to its return statement
Return(tool, handler, args, down, out) ==
    /\ pc = "idle"
    /\ pc' = "done"
    /\ request' = [tool |-> tool, handler |-> handler, arguments |-> args]
    /\ outage' = down
    /\ LET o == out
       IN  result' = o.result /\ calls' = o.calls /\ store' = o.store
    /\ before' = store
    /\ UNCHANGED <<env, tz, inflight>>

\* create_shared_summary
CreateSharedSummary(Titles, Summaries, Authors, Clock, Downs) ==
    \E title \in Titles, summary \in Summaries, author \in Authors,
       now \in Clock, down \in Downs :
        LET args == [title |-> title, summary |-> summary, author |-> author]
            out  == createSharedSummary(store, nextId, env, args, now, down)
        IN  /\ Return("create_shared_summary", "createSharedSummary", args, down, out)
            /\ nextId' = IF out.store = store THEN nextId ELSE nextId + 1

\* get_summaries, answered by getSummaries of tools/get_summaries.ts
GetSummaries(Criteria, Downs) ==
    \E args \in Criteria, down \in Downs :
        /\ Return("get_summaries", "getSummaries", args, down,
                  getSummaries(store, env, tz, args, down))
        /\ UNCHANGED nextId

\* get_summaries, answered by handleGetSummaries of the single-file server
HandleGetSummaries(Criteria, Downs) ==
    \E args \in Criteria, down \in Downs :
        /\ Return("get_summaries", "handleGetSummaries", args, down,
                  handleGetSummaries(store, env, tz, args, down))
        /\ UNCHANGED nextId

\* update_shared_summary
UpdateSharedSummary(Targets, Titles, Summaries, Authors, Downs) ==
    \E target \in Targets, title \in Titles, summary \in Summaries,
       author \in Authors, down \in Downs :
        LET args == [id |-> target[1], query |-> target[2], title |-> title,
                     summary |-> summary, author |-> author]
        IN  /\ Return("update_shared_summary", "updateSharedSummary", args, down,
                      updateSharedSummary(store, env, args, down))
            /\ UNCHANGED nextId

\* delete_shared_summary
HandleDeleteSharedSummary(Ids, Criteria, Downs) ==
    \E id \in Ids, criteria \in Criteria, down \in Downs :
        LET args == [id |-> id, date |-> criteria.date,
                     dayOfWeek |-> criteria.dayOfWeek, limit |-> criteria.limit,
                     timeRange |-> criteria.timeRange]
        IN  /\ Return("delete_shared_summary", "handleDeleteSharedSummary", args, down,
                      handleDeleteSharedSummary(store, env, tz, args, down))
            /\ UNCHANGED nextId

\* the request handler returns the handler's result to the client; the
\* server waits for the next tool call
Respond ==
    /\ pc = "done"
    /\ pc' = "idle"
    /\ request' = NoRequest
    /\ outage' = {}
    /\ result' = NoResult
    /\ calls' = <<>>
    /\ before' = <<>>
    /\ UNCHANGED <<store, nextId, env, tz, inflight>>

-----------------------------------------------------------------------------
(* Tool calls side by side.  The CallTool handler is an async function and   *)
(* nothing in it waits for an earlier call to return: a handler that awaits  *)
(* a fetch leaves the event loop to the next tool call.  updateSharedSummary *)
(* with an id is taken apart at its two awaits.                              *)

\* a request slot without a tool call
Free ==
    [pc |-> "free", arguments |-> <<>>, currentBody |-> "", crossed |-> FALSE,
     result |-> NoResult]

\* another handler's store call on engagement id reaches the store while the
\* handlers in `slots` are between their read and their write of it
Crossing(slots, by, id) ==
    [t \in DOMAIN slots |->
        IF t # by /\ slots[t].pc = "resUpdate" /\ slots[t].arguments.id[1] = id
        THEN [slots[t] EXCEPT !.crossed = TRUE]
        ELSE slots[t]]

\* the dispatcher calls updateSharedSummary(args): config check, targetId = id,
\* and the handler awaits the GET of the engagement
CallToolUpdate(slot, args) ==
    /\ inflight[slot].pc = "free"
    /\ TruthyStr(args.id)
    /\ inflight' =
           [inflight EXCEPT ![slot] =
               IF checkHubSpotConfig(env) # <<>>
               THEN [Free EXCEPT !.pc = "done", !.arguments = args,
                                 !.result = MissingConfig(env)]
               ELSE [Free EXCEPT !.pc = "getRes", !.arguments = args]]
    /\ UNCHANGED <<store, nextId, env, tz, pc, request, outage, result, calls, before>>

\* getRes arrives: the handler keeps the body it read, merges, and awaits the PUT
GetRes(slot) ==
    /\ inflight[slot].pc = "getRes"
    /\ LET id     == inflight[slot].arguments.id[1]
           status == StatusOf(store, {}, "getById", id)
           others == Crossing(inflight, slot, id)
       IN  inflight' =
               [others EXCEPT ![slot] =
                   IF status # 200
                   THEN [@ EXCEPT !.pc = "done",
                                  !.result = Failure("Error updating summary: "
                                                     \o HttpError(status))]
                   ELSE [@ EXCEPT !.pc = "resUpdate",
                                  !.currentBody = RecordOf(store, id).body]]
    /\ UNCHANGED <<store, nextId, env, tz, pc, request, outage, result, calls, before>>

\* resUpdate arrives: the store has written the merged body, the handler returns
ResUpdate(slot) ==
    /\ inflight[slot].pc = "resUpdate"
    /\ LET id     == inflight[slot].arguments.id[1]
           status == StatusOf(store, {}, "updateBody", id)
           others == Crossing(inflight, slot, id)
       IN  IF status # 200
           THEN /\ inflight' =
                       [others EXCEPT ![slot] =
                           [@ EXCEPT !.pc = "done",
                                     !.result = Failure("Error updating summary: "
                                                        \o HttpError(status))]]
                /\ UNCHANGED store
           ELSE /\ inflight' =
                       [others EXCEPT ![slot] =
                           [@ EXCEPT !.pc = "done",
                                     !.result =
                                         Success("Summary updated successfully. "
                                                 \o "Engagement ID: " \o id, <<>>)]]
                /\ store' = UpdateBody(store, id,
                                       updatedBody(inflight[slot].arguments,
                                                   inflight[slot].currentBody))
    /\ UNCHANGED <<nextId, env, tz, pc, request, outage, result, calls, before>>

\* the result goes back to the client
SendResult(slot) ==
    /\ inflight[slot].pc = "done"
    /\ inflight' = [inflight EXCEPT ![slot] = Free]
    /\ UNCHANGED <<store, nextId, env, tz, pc, request, outage, result, calls, before>>

-----------------------------------------------------------------------------
(* Bounds and input sets *)

\* tool calls the client has open at a time
MaxInflight == 2

\* engagements in the store that the deletes empty
MaxDrain == 3

\* engagements the lifecycle specification creates
MaxCreates == 2

\* engagements on a page of the filter specification
MaxPage == 2

\* engagements in the store of the codec specification
MaxNotes == 1

\* the largest limit a tool call passes
MaxLimit == 2

\* minutes since the epoch of a UTC day number and a time of day
At(day, hh, mm) == day * (24 * 60) + hh * 60 + mm

\* Sunday 2024-03-03 23:30Z; Monday 2024-03-04 08:59Z, 09:30Z and 10:01Z;
\* Tuesday 2024-03-05 00:10Z
Instants ==
    {At(19785, 23, 30), At(19786, 8, 59), At(19786, 9, 30), At(19786, 10, 1),
     At(19787, 0, 10)}

\* UTC-05:00, UTC and UTC+05:30
Zones == {-300, 0, 330}

Configured == [HUBSPOT_ACCESS_TOKEN |-> "token", SHARED_CONTACT_ID |-> "42"]

Envs == [HUBSPOT_ACCESS_TOKEN : {"", "token"}, SHARED_CONTACT_ID : {"", "42"}]

Optional(S) == {Undefined} \cup {Some(v) : v \in S}

NoCriteria ==
    [date |-> Undefined, dayOfWeek |-> Undefined, limit |-> Undefined,
     timeRange |-> Undefined]

Limits == Optional({-1, 0} \cup 1..MaxLimit)

\* the criteria of the filter specification
FilterCriteria ==
    [date      : Optional({"2024-03-04"}),
     dayOfWeek : Optional({"", "Monday", "TUESDAY", "sunday", "mon", "funday",
                           "constructor"}),
     limit     : Limits,
     timeRange : Optional({[start |-> "09:00", end |-> "10:00"],
                           [start |-> "08:59", end |-> "09:30"]})]

\* the ids a tool call of the lifecycle specification may name
SomeIds == {NumberToString(n) : n \in 1..(MaxCreates + 1)}

\* every page of at most MaxPage engagements, numbered in page order
Pages ==
    UNION {[1..n -> Instants] : n \in 0..MaxPage}

PageOf(stamps) ==
    [i \in 1..Len(stamps) |->
        [id |-> NumberToString(i), timestamp |-> stamps[i],
         body |-> noteBody("T", "S", "A")]]

-----------------------------------------------------------------------------
(* Specifications *)

Idle ==
    /\ pc = "idle"
    /\ request = NoRequest
    /\ outage = {}
    /\ result = NoResult
    /\ calls = <<>>
    /\ before = <<>>
    /\ inflight = <<>>

\* The server next to an empty store.
Init ==
    /\ store = <<>>
    /\ nextId = 1
    /\ env \in Envs
    /\ tz = 0
    /\ Idle

\* the ways one endpoint fails during a tool call: status 500, or status 200
\* with a body that lacks the expected fields
Failing(call) == {{call}, {EmptyReply(call)}}

Create ==
    /\ nextId <= MaxCreates
    /\ CreateSharedSummary({"Budget", "Plan"}, {"S"}, {"A"},
                           {At(19786, 9, 30), At(19787, 0, 10)},
                           {{}} \cup Failing("create"))

\* the criteria of the lifecycle specification: a limit, or a dayOfWeek that
\* names no day
LifecycleCriteria ==
    {[NoCriteria EXCEPT !.limit = l] : l \in Limits}
    \cup {[NoCriteria EXCEPT !.dayOfWeek = Some("funday")]}

List == GetSummaries(LifecycleCriteria, {{}} \cup Failing("listPage"))

HandleList == HandleGetSummaries(LifecycleCriteria, {{}} \cup Failing("listPage"))

\* how an update names its target: nothing, empty strings, an id, a query,
\* both (the id wins), or an empty id with a query (the query is used)
Selectors ==
    {<<Undefined, Undefined>>, <<Some(""), Some("")>>, <<Some("1"), Some("zzz")>>,
     <<Some(""), Some("BUDGET")>>}
    \cup {<<Some(id), Undefined>> : id \in SomeIds}
    \cup {<<Undefined, Some(q)>> : q \in {"BUDGET", "zzz"}}

Update ==
    UpdateSharedSummary(Selectors, Optional({"", "Plan"}), Optional({"S2"}), {Undefined},
                        {{}} \cup Failing("listPage") \cup Failing("getById")
                        \cup Failing("updateBody"))

Delete ==
    HandleDeleteSharedSummary(Optional(SomeIds), LifecycleCriteria,
                              {{}, {"delete"}} \cup Failing("listPage"))

Next == Create \/ List \/ HandleList \/ Update \/ Delete \/ Respond

Spec == Init /\ [][Next]_vars

\* The filter engine on every page of a store that other clients filled.
InitFilter ==
    /\ \E stamps \in Pages : store = PageOf(stamps) /\ nextId = Len(stamps) + 1
    /\ env = Configured
    /\ tz \in Zones
    /\ Idle

FilterList == GetSummaries(FilterCriteria, {{}})

FilterHandleList == HandleGetSummaries(FilterCriteria, {{}})

FilterDelete == HandleDeleteSharedSummary({Undefined}, FilterCriteria, {{}})

NextFilter == FilterList \/ FilterHandleList \/ FilterDelete \/ Respond

SpecFilter == InitFilter /\ [][NextFilter]_vars

\* The date and dayOfWeek criteria together, on the days around 2024-03-04.
DayCriteria ==
    [date      : {Some("2024-03-03"), Some("2024-03-04"), Some("2024-03-05")},
     dayOfWeek : Optional({"sunday", "Monday", "TUESDAY"}),
     limit     : {Undefined},
     timeRange : {Undefined}]

InitDays ==
    /\ \E stamps \in Pages : store = PageOf(stamps) /\ nextId = Len(stamps) + 1
    /\ env = Configured
    /\ tz \in Zones
    /\ Idle

DaysList == GetSummaries(DayCriteria, {{}})

DaysHandleList == HandleGetSummaries(DayCriteria, {{}})

DaysDelete == HandleDeleteSharedSummary({Undefined}, DayCriteria, {{}})

NextDays == DaysList \/ DaysHandleList \/ DaysDelete \/ Respond

SpecDays == InitDays /\ [][NextDays]_vars

\* Deletes without id and without criteria, one after the other, on a store of
\* engagements with distinct timestamps.
DrainPages ==
    {stamps \in UNION {[1..n -> Instants] : n \in 0..MaxDrain} :
        \A i, j \in 1..Len(stamps) : i # j => stamps[i] # stamps[j]}

InitDrain ==
    /\ \E stamps \in DrainPages : store = PageOf(stamps) /\ nextId = Len(stamps) + 1
    /\ env = Configured
    /\ tz = 0
    /\ Idle

DrainDelete ==
    HandleDeleteSharedSummary({Undefined}, {NoCriteria}, {{}})

NextDrain == DrainDelete \/ Respond

SpecDrain == InitDrain /\ [][NextDrain]_vars

\* Update calls, each with one field, on one engagement, as the client sends
\* them without waiting for the answers.
FieldUpdates ==
    {[id |-> Some("1"), query |-> Undefined, title |-> title, summary |-> summary,
      author |-> Undefined] :
        <<title, summary>> \in {<<Some("Plan"), Undefined>>, <<Undefined, Some("S2")>>}}

InitOverlap ==
    /\ store = <<[id |-> "1", timestamp |-> At(19786, 9, 30),
                  body |-> noteBody("T", "S", "A")]>>
    /\ nextId = 2
    /\ env = Configured
    /\ tz = 0
    /\ pc = "idle"
    /\ request = NoRequest
    /\ outage = {}
    /\ result = NoResult
    /\ calls = <<>>
    /\ before = <<>>
    /\ inflight = [slot \in 1..MaxInflight |-> Free]

OverlapCall == \E slot \in 1..MaxInflight, args \in FieldUpdates : CallToolUpdate(slot, args)

OverlapGet == \E slot \in 1..MaxInflight : GetRes(slot)

OverlapPut == \E slot \in 1..MaxInflight : ResUpdate(slot)

OverlapSend == \E slot \in 1..MaxInflight : SendResult(slot)

NextOverlap == OverlapCall \/ OverlapGet \/ OverlapPut \/ OverlapSend

SpecOverlap == InitOverlap /\ [][NextOverlap]_vars

\* The body codec and the merge policy on notes of every shape.
ForeignBodies ==
    {"", "call the customer back", "Author: Z\nTitle: Y", "Title: X\nnote\nSummary: W"}

CodecTitles == {"", "a", "Title: b"}

CodecSummaries == {"", "Author: d"}

CodecAuthors == {"e", "x\nTitle: f"}

InitCodec ==
    /\ \/ store = <<>> /\ nextId = 1
       \/ \E body \in ForeignBodies :
            /\ store = <<[id |-> "1", timestamp |-> At(19786, 9, 30), body |-> body]>>
            /\ nextId = 2
    /\ env = Configured
    /\ tz = 0
    /\ Idle

CodecCreate ==
    /\ Len(store) < MaxNotes
    /\ CreateSharedSummary(CodecTitles, CodecSummaries, CodecAuthors,
                           {At(19786, 10, 1)}, {{}})

CodecUpdate ==
    UpdateSharedSummary({<<Some(NumberToString(n)), Undefined>> : n \in 1..MaxNotes},
                        Optional(CodecTitles), Optional(CodecSummaries),
                        Optional(CodecAuthors), {{}})

NextCodec == CodecCreate \/ CodecUpdate \/ Respond

SpecCodec == InitCodec /\ [][NextCodec]_vars

-----------------------------------------------------------------------------
(* Properties *)

\* the handler h has returned and its result is not yet sent
Done(h) == pc = "done" /\ request.handler = h

Args == request.arguments

\* the page request of the call was answered with a page
PageFetched == "listPage" \notin outage /\ ~RepliesEmpty(outage, "listPage")

NewlineFree(text) == ~Includes(text, "\n")

\* the value a merge is meant to write for one field
Written(supplied, previous) ==
    IF supplied # Undefined /\ supplied[1] # "" THEN supplied[1] ELSE previous

Fields(title, summary, author) == [title |-> title, summary |-> summary, author |-> author]

\* the id the last store call of the handler named
LastId == calls[Len(calls)].id

(* C1: body codec round trip.  For newline-free title, summary and author,   *)
(* parsing the body that create wrote from them, or that update wrote from   *)
(* the merged values, with the update handler's line parser gives back       *)
(* exactly those three values, empty values and values that hold a label     *)
(* prefix included.                                                          *)
C1_RoundTrip ==
    /\ ( /\ Done("createSharedSummary")
         /\ ~result.isError
         /\ NewlineFree(Args.title)
         /\ NewlineFree(Args.summary)
         /\ NewlineFree(Args.author) )
       => ParseBody(RecordOf(store, LastId).body)
            = Fields(Args.title, Args.summary, Args.author)
    /\ (Done("updateSharedSummary") /\ ~result.isError)
       => LET old     == ParseBody(RecordOf(before, LastId).body)
              title   == Written(Args.title, old.title)
              summary == Written(Args.summary, old.summary)
              author  == Written(Args.author, old.author)
          IN  (NewlineFree(title) /\ NewlineFree(summary) /\ NewlineFree(author))
              => ParseBody(RecordOf(store, LastId).body) = Fields(title, summary, author)

\* a note was created whose title holds a label prefix and whose summary is empty
C1_Witness ==
    /\ Done("createSharedSummary")
    /\ ~result.isError
    /\ Args.title = "Title: b"
    /\ Args.summary = ""
    /\ NewlineFree(Args.author)
    /\ ParseBody(RecordOf(store, LastId).body).title = "Title: b"

(* C2: merge on update.  For each of title, summary and author, an update    *)
(* by id of a note the store holds writes the caller's value when it is      *)
(* non-empty and the value parsed from the previous body when it is absent   *)
(* or the empty string; such an update is never an error.                    *)
C2_MergeOnUpdate ==
    ( /\ Done("updateSharedSummary")
      /\ checkHubSpotConfig(env) = <<>>
      /\ outage = {}
      /\ TruthyStr(Args.id)
      /\ HasId(before, Args.id[1]) )
    => /\ ~result.isError
       /\ LET old == ParseBody(RecordOf(before, Args.id[1]).body)
          IN  RecordOf(store, Args.id[1]).body
                = noteBody(Written(Args.title, old.title),
                           Written(Args.summary, old.summary),
                           Written(Args.author, old.author))

\* an update passed an empty title and a new summary for a note that had a title
C2_Witness ==
    /\ Done("updateSharedSummary")
    /\ ~result.isError
    /\ Args.title = Some("")
    /\ Args.summary = Some("Author: d")
    /\ Args.author = Undefined
    /\ ParseBody(RecordOf(before, Args.id[1]).body).title = "a"
    /\ ParseBody(RecordOf(before, Args.id[1]).body).summary = ""
    /\ ParseBody(RecordOf(store, Args.id[1]).body).title = "a"
    /\ ParseBody(RecordOf(store, Args.id[1]).body).summary = "Author: d"

\* the update was asked to find its target by query and the page was fetched
UpdateByQuery ==
    /\ Done("updateSharedSummary")
    /\ checkHubSpotConfig(env) = <<>>
    /\ ~TruthyStr(Args.id)
    /\ TruthyStr(Args.query)
    /\ PageFetched

\* the positions on the fetched page whose body holds the query, letter case aside
QueryHits ==
    {i \in 1..Len(before) :
        Includes(ToLowerCase(before[i].body), ToLowerCase(Args.query[1]))}

(* C3: update resolution by query.  With no id and a non-empty query the     *)
(* update reads and writes one record only, a newest one among the fetched   *)
(* records whose body holds the query as a case-insensitive substring; when  *)
(* no fetched record matches it fails with the not-found message and issues  *)
(* neither a getById nor an updateBody call.                                 *)
C3_UpdateByQuery ==
    UpdateByQuery =>
        IF QueryHits = {}
        THEN /\ result.isError
             /\ result.text = "Error updating summary: " \o
                              "No summary found matching the provided query."
             /\ calls = <<Call("listPage", "")>>
             /\ store = before
        ELSE /\ Len(calls) >= 2
             /\ calls[1] = Call("listPage", "")
             /\ calls[2].call = "getById"
             /\ \E i \in QueryHits :
                    /\ before[i].id = calls[2].id
                    /\ \A j \in QueryHits : before[j].timestamp <= before[i].timestamp
             /\ \A k \in 3..Len(calls) :
                    calls[k] = Call("updateBody", calls[2].id) /\ k = 3
             /\ Len(store) = Len(before)
             /\ \A i \in 1..Len(before) :
                    before[i].id # calls[2].id => store[i] = before[i]

\* two notes match the query, the newer one is listed second, and it is the one updated
C3_Witness ==
    /\ UpdateByQuery
    /\ ~result.isError
    /\ QueryHits = {1, 2}
    /\ before[1].timestamp < before[2].timestamp
    /\ calls = <<Call("listPage", ""), Call("getById", before[2].id),
                 Call("updateBody", before[2].id)>>
    /\ store[2].body # before[2].body
    /\ store[1] = before[1]

\* a record satisfies the criteria of a tool call
Passes(r, criteria, zone) ==
    /\ TruthyStr(criteria.date) => DateMatches(r, criteria.date[1])
    /\ TruthyStr(criteria.dayOfWeek)
       => DayMatches(r, targetDay(criteria.dayOfWeek[1]), zone)
    /\ TimeRangeSet(criteria.timeRange) => TimeMatches(r, criteria.timeRange[1], zone)

\* the positions on the fetched page that satisfy the criteria of the call
Passing == {i \in 1..Len(before) : Passes(before[i], Args, tz)}

\* the delete was asked to find its target by criteria, the page was fetched
\* and the criteria were accepted
DeleteByCriteria ==
    /\ Done("handleDeleteSharedSummary")
    /\ checkHubSpotConfig(env) = <<>>
    /\ ~TruthyStr(Args.id)
    /\ PageFetched
    /\ ~DayOfWeekThrows(Args.dayOfWeek)

\* the page without the record at position i
Without(page, i) ==
    [k \in 1..(Len(page) - 1) |-> IF k < i THEN page[k] ELSE page[k + 1]]

(* C4: delete resolution acts on one record.  With no id, whatever the limit *)
(* (unset, 1, greater than 1, or not positive), a delete whose criteria some *)
(* fetched record satisfies issues exactly one delete call, for a newest     *)
(* record among those that satisfy the criteria (with no criteria: a newest  *)
(* record of the page), and leaves every other record as it was.             *)
C4_DeleteOne ==
    (DeleteByCriteria /\ Passing # {}) =>
        \E i \in Passing :
            /\ \A j \in Passing : before[j].timestamp <= before[i].timestamp
            /\ calls = <<Call("listPage", ""), Call("delete", before[i].id)>>
            /\ IF "delete" \in outage
               THEN result.isError /\ store = before
               ELSE ~result.isError /\ store = Without(before, i)

\* a delete with a date and limit 2 found two records and removed only the
\* newer one, which the page lists second
C4_Witness ==
    /\ DeleteByCriteria
    /\ Args.limit = Some(2)
    /\ TruthyStr(Args.date)
    /\ Passing = {1, 2}
    /\ before[1].timestamp < before[2].timestamp
    /\ calls = <<Call("listPage", ""), Call("delete", before[2].id)>>
    /\ store = <<before[1]>>

(* C5: a delete with no id whose criteria no fetched record satisfies fails  *)
(* with the not-found message, issues no delete call and leaves the store    *)
(* unchanged.                                                                *)
C5_DeleteNoMatch ==
    (DeleteByCriteria /\ Passing = {}) =>
        /\ result.isError
        /\ result.text = "Error deleting summary: " \o
                         "No summary found matching the provided filters."
        /\ calls = <<Call("listPage", "")>>
        /\ store = before

\* a delete by date on a page that holds records, none of them of that date
C5_Witness ==
    /\ DeleteByCriteria
    /\ TruthyStr(Args.date)
    /\ Len(before) > 0
    /\ Passing = {}
    /\ result.isError
    /\ store = before

\* a listing fetched the page
Fetched ==
    /\ Done("getSummaries") \/ Done("handleGetSummaries")
    /\ checkHubSpotConfig(env) = <<>>
    /\ PageFetched

\* a listing fetched the page and accepted the criteria
Listed == Fetched /\ ~DayOfWeekThrows(Args.dayOfWeek)

\* the position on the fetched page of a returned record
PositionOf(r) == CHOOSE i \in 1..Len(before) : before[i].id = r.id

\* the ids of the records a listing returned
ReturnedIds == {result.results[k].id : k \in 1..Len(result.results)}

(* C6: listing order and truncation.  A listing returns records that pass    *)
(* the criteria, each once, newest first, records of equal createdAt in the  *)
(* order of the fetched page; with limit n > 0 and m passing records it      *)
(* returns min(n, m) records, none older than a passing record it left out;  *)
(* with limit omitted it returns all m.                                      *)
C6_ListOrder ==
    (Listed /\ (Args.limit = Undefined \/ Args.limit[1] > 0)) =>
        LET out == result.results
            m   == Cardinality(Passing)
        IN  /\ ~result.isError
            /\ \A k \in 1..Len(out) :
                   /\ \E i \in Passing : before[i] = out[k]
                   /\ PositionOf(out[k]) \in Passing
            /\ \A k, l \in 1..Len(out) :
                   k < l =>
                       \/ out[k].timestamp > out[l].timestamp
                       \/ /\ out[k].timestamp = out[l].timestamp
                          /\ PositionOf(out[k]) < PositionOf(out[l])
            /\ Len(out) = IF Args.limit = Undefined THEN m ELSE Min(Args.limit[1], m)
            /\ \A k \in 1..Len(out) :
                   \A j \in Passing :
                       before[j].id \notin ReturnedIds
                       => out[k].timestamp >= before[j].timestamp
            /\ calls = <<Call("listPage", "")>>
            /\ store = before

\* a listing with limit 1 met two passing records of the same createdAt and
\* returned the one the page lists first
C6_Witness ==
    /\ Listed
    /\ Args.limit = Some(1)
    /\ Passing = {1, 2}
    /\ before[1].timestamp = before[2].timestamp
    /\ result.results = <<before[1]>>

(* C7: every limit less than or equal to 0, 0 included, makes a listing fail *)
(* with a validation error instead of returning records.                     *)
C7_LimitRejected ==
    (Listed /\ Args.limit # Undefined /\ Args.limit[1] <= 0) => result.isError

\* the seven names the dayOfWeek criterion accepts, Sunday first
DayNames ==
    <<"sunday", "monday", "tuesday", "wednesday", "thursday", "friday", "saturday">>

\* the index 0..6 of an accepted name, in any letter case
DayIndex(name) == (CHOOSE n \in 1..7 : DayNames[n] = ToLowerCase(name)) - 1

\* the name is, letter case aside, one of the seven
IsDayName(name) == \E n \in 1..7 : DayNames[n] = ToLowerCase(name)

\* a listing or a delete by criteria got as far as the criteria
CriteriaReached ==
    /\ \/ Done("getSummaries")
       \/ Done("handleGetSummaries")
       \/ Done("handleDeleteSharedSummary") /\ ~TruthyStr(Args.id)
    /\ checkHubSpotConfig(env) = <<>>
    /\ PageFetched

(* C8: dayOfWeek validation.  Every non-empty dayOfWeek that is not, letter  *)
(* case aside, one of the seven full names makes the listing or the delete   *)
(* fail with the invalid-dayOfWeek error; it is never a filter that matches  *)
(* no record.                                                                *)
C8_InvalidDayRejected ==
    (CriteriaReached /\ TruthyStr(Args.dayOfWeek) /\ ~IsDayName(Args.dayOfWeek[1])) =>
        /\ result.isError
        /\ Includes(result.text, "Invalid dayOfWeek provided: " \o Args.dayOfWeek[1])

\* a record satisfies the date and the timeRange of the criteria
PassesDateAndTime(r, criteria, zone) ==
    /\ TruthyStr(criteria.date) => DateMatches(r, criteria.date[1])
    /\ TimeRangeSet(criteria.timeRange) => TimeMatches(r, criteria.timeRange[1], zone)

(* C9: dayOfWeek filtering.  A valid name in any letter case stands for the  *)
(* index 0 = Sunday .. 6 = Saturday, and the listing keeps exactly the       *)
(* fetched records whose createdAt falls, on the server's clock, on the      *)
(* weekday of that index; "Monday" keeps a record of Monday 2024-03-04 and   *)
(* drops a record of Tuesday 2024-03-05.                                     *)
C9_DayOfWeekFilter ==
    (/\ Fetched
     /\ TruthyStr(Args.dayOfWeek)
     /\ IsDayName(Args.dayOfWeek[1])
     /\ Args.limit = Undefined) =>
        /\ ~result.isError
        /\ ReturnedIds =
               {before[i].id : i \in
                   {j \in 1..Len(before) :
                       /\ GetDay(before[j].timestamp, tz) = DayIndex(Args.dayOfWeek[1])
                       /\ PassesDateAndTime(before[j], Args, tz)}}
        /\ (tz = 0 /\ ToLowerCase(Args.dayOfWeek[1]) = "monday" /\ Args.date = Undefined
               /\ Args.timeRange = Undefined) =>
               \A i \in 1..Len(before) :
                   /\ before[i].timestamp = At(19786, 9, 30)
                      => before[i].id \in ReturnedIds
                   /\ before[i].timestamp = At(19787, 0, 10)
                      => before[i].id \notin ReturnedIds

\* on a server at UTC, a listing for "Monday" met a Tuesday record and a
\* Monday record and returned the Monday record alone
C9_Witness ==
    /\ Fetched
    /\ tz = 0
    /\ Args = [NoCriteria EXCEPT !.dayOfWeek = Some("Monday")]
    /\ Len(before) = 2
    /\ before[1].timestamp = At(19787, 0, 10)
    /\ before[2].timestamp = At(19786, 9, 30)
    /\ result.results = <<before[2]>>

\* the day, counted from 1970-01-01, on which an instant falls in UTC
UtcDay(minutes) == minutes \div 1440

(* C10: date filtering.  With date set, the listing keeps exactly the        *)
(* fetched records whose createdAt, taken as a UTC calendar date, equals     *)
(* date; records of the UTC day before or after are left out whatever the    *)
(* server's time zone.                                                       *)
C10_DateFilter ==
    (/\ Fetched
     /\ Args.date = Some("2024-03-04")
     /\ TruthyStr(Args.dayOfWeek) => IsDayName(Args.dayOfWeek[1])
     /\ Args.limit = Undefined) =>
        /\ ~result.isError
        /\ ReturnedIds =
               {before[i].id : i \in
                   {j \in 1..Len(before) :
                       /\ UtcDay(before[j].timestamp) = 19786  \* 2024-03-04
                       /\ TruthyStr(Args.dayOfWeek)
                          => GetDay(before[j].timestamp, tz) = DayIndex(Args.dayOfWeek[1])
                       /\ TimeRangeSet(Args.timeRange)
                          => TimeMatches(before[j], Args.timeRange[1], tz)}}

\* east of UTC, a listing for 2024-03-04 met a record of 2024-03-03 23:30 UTC,
\* which the server's clock puts on the 4th, and left it out
C10_Witness ==
    /\ Fetched
    /\ tz > 0
    /\ Args = [NoCriteria EXCEPT !.date = Some("2024-03-04")]
    /\ Len(before) = 2
    /\ before[1].timestamp = At(19785, 23, 30)
    /\ UtcDay(before[2].timestamp) = 19786
    /\ result.results = <<before[2]>>

\* the number a decimal digit stands for
DigitValue(c) == CHOOSE d \in 0..9 : SubSeq(Digits, d + 1, d + 1) = c

\* the minute of the day a zero-padded HH:MM names
MinuteOfDay(text) ==
    (DigitValue(SubSeq(text, 1, 1)) * 10 + DigitValue(SubSeq(text, 2, 2))) * 60
    + DigitValue(SubSeq(text, 4, 4)) * 10 + DigitValue(SubSeq(text, 5, 5))

\* the minute of the day of an instant on the clock of the zone
LocalMinute(ts, zone) == (ts + zone) % 1440

\* the instant lies in the window, both ends included
InWindow(ts, range, zone) ==
    /\ MinuteOfDay(range.start) <= LocalMinute(ts, zone)
    /\ LocalMinute(ts, zone) <= MinuteOfDay(range.end)

(* C11: time-of-day window.  With start and end both given as zero-padded    *)
(* HH:MM, the listing keeps exactly the fetched records whose createdAt, as  *)
(* HH:MM on the server's clock, lies between start and end, both ends        *)
(* included; at UTC the window 09:00..10:00 keeps a record of 09:30 and      *)
(* drops records of 08:59 and 10:01.                                         *)
C11_TimeWindow ==
    (/\ Fetched
     /\ TimeRangeSet(Args.timeRange)
     /\ TruthyStr(Args.dayOfWeek) => IsDayName(Args.dayOfWeek[1])
     /\ Args.limit = Undefined) =>
        /\ ~result.isError
        /\ ReturnedIds =
               {before[i].id : i \in
                   {j \in 1..Len(before) :
                       /\ InWindow(before[j].timestamp, Args.timeRange[1], tz)
                       /\ TruthyStr(Args.date) => DateMatches(before[j], Args.date[1])
                       /\ TruthyStr(Args.dayOfWeek)
                          => GetDay(before[j].timestamp, tz) = DayIndex(Args.dayOfWeek[1])}}
        /\ (tz = 0 /\ Args.timeRange[1] = [start |-> "09:00", end |-> "10:00"]
               /\ Args.date = Undefined /\ Args.dayOfWeek = Undefined) =>
               \A i \in 1..Len(before) :
                   /\ before[i].timestamp = At(19786, 9, 30)
                      => before[i].id \in ReturnedIds
                   /\ before[i].timestamp \in {At(19786, 8, 59), At(19786, 10, 1)}
                      => before[i].id \notin ReturnedIds

\* at UTC a listing for 08:59..09:30 met a record of 08:59 and one of 09:30,
\* the two ends of the window, and returned both
C11_Witness ==
    /\ Fetched
    /\ tz = 0
    /\ Args = [NoCriteria EXCEPT !.timeRange = Some([start |-> "08:59", end |-> "09:30"])]
    /\ Len(before) = 2
    /\ before[1].timestamp = At(19786, 8, 59)
    /\ before[2].timestamp = At(19786, 9, 30)
    /\ Len(result.results) = 2

\* the server is configured
ConfigOk == checkHubSpotConfig(env) = <<>>

\* create: the store gains one engagement, which decodes to the arguments
CreateStep ==
    (Done("createSharedSummary") /\ ~result.isError) =>
        /\ Len(store) = Len(before) + 1
        /\ SubSeq(store, 1, Len(before)) = before
        /\ ~HasId(before, store[Len(store)].id)
        /\ ParseBody(store[Len(store)].body) = Fields(Args.title, Args.summary, Args.author)
        /\ result.text = "Summary created successfully. Engagement ID: "
                         \o store[Len(store)].id

\* list without criteria: every engagement of the store is returned as stored
ListAllStep ==
    (Fetched /\ Args = NoCriteria) =>
        /\ ~result.isError
        /\ Len(result.results) = Len(before)
        /\ \A i \in 1..Len(before) : \E k \in 1..Len(result.results) : result.results[k] = before[i]
        /\ store = before

\* update by id with a summary alone: the engagement decodes to its former
\* title and author and the new summary
UpdateSummaryStep ==
    (/\ Done("updateSharedSummary")
     /\ ~result.isError
     /\ TruthyStr(Args.id)
     /\ Args.title = Undefined
     /\ Args.author = Undefined
     /\ TruthyStr(Args.summary)) =>
        LET old == ParseBody(RecordOf(before, Args.id[1]).body)
        IN  /\ HasId(store, Args.id[1])
            /\ ParseBody(RecordOf(store, Args.id[1]).body)
                   = Fields(old.title, Args.summary[1], old.author)

\* delete by id: the engagement is gone
DeleteStep ==
    (Done("handleDeleteSharedSummary") /\ ~result.isError /\ TruthyStr(Args.id)) =>
        /\ HasId(before, Args.id[1])
        /\ ~HasId(store, Args.id[1])
        /\ calls = <<Call("delete", Args.id[1])>>

\* getById on an id the store does not hold fails with not-found
GetMissingStep ==
    (/\ Done("updateSharedSummary")
     /\ ConfigOk
     /\ TruthyStr(Args.id)
     /\ ~HasId(before, Args.id[1])
     /\ "getById" \notin outage) =>
        /\ result.isError
        /\ result.text = "Error updating summary: " \o HttpError(404)
        /\ calls = <<Call("getById", Args.id[1])>>
        /\ store = before

\* the delete of this id has succeeded
Deleted(id) ==
    /\ Done("handleDeleteSharedSummary")
    /\ ~result.isError
    /\ calls[Len(calls)] = Call("delete", id)

(* C12: end-to-end lifecycle from an empty store.  A create adds one         *)
(* engagement that decodes to (T, S, A), and a listing without criteria      *)
(* returns the stored engagements as they are, so exactly that one; an       *)
(* update on its id with summary S2 alone leaves it decoding to (T, S2, A);  *)
(* a delete on its id removes it, it never comes back, and a later getById   *)
(* on it fails with not-found.                                               *)
C12_Lifecycle ==
    /\ [](CreateStep /\ ListAllStep /\ UpdateSummaryStep /\ DeleteStep /\ GetMissingStep)
    /\ \A id \in SomeIds : [](Deleted(id) => [](~HasId(store, id)))

\* the first engagement was created and deleted, the store is empty again,
\* and an update on its id has just failed at getById with not-found
C12_Witness ==
    /\ Done("updateSharedSummary")
    /\ ConfigOk
    /\ Args.id = Some("1")
    /\ nextId = 2
    /\ store = <<>>
    /\ outage = {}
    /\ result.text = "Error updating summary: " \o HttpError(404)

\* the four operations, by the handlers that answer them
Operations ==
    {"createSharedSummary", "getSummaries", "handleGetSummaries",
     "updateSharedSummary", "handleDeleteSharedSummary"}

(* C13: the configuration check precedes the network.  Whichever of the four *)
(* operations is called, when the access token or the shared contact id is   *)
(* absent the result carries the error flag and names each missing setting,  *)
(* no store call is issued and the store is unchanged.                       *)
C13_ConfigFirst ==
    (/\ pc = "done"
     /\ request.handler \in Operations
     /\ env.HUBSPOT_ACCESS_TOKEN = "" \/ env.SHARED_CONTACT_ID = "") =>
        /\ result.isError
        /\ StartsWith(result.text, "Error: Missing required environment variables: ")
        /\ env.HUBSPOT_ACCESS_TOKEN = "" => Includes(result.text, "HUBSPOT_ACCESS_TOKEN")
        /\ env.SHARED_CONTACT_ID = "" => Includes(result.text, "SHARED_CONTACT_ID")
        /\ calls = <<>>
        /\ store = before

\* a create on a server that has the access token but no shared contact id
C13_Witness ==
    /\ Done("createSharedSummary")
    /\ env.HUBSPOT_ACCESS_TOKEN # ""
    /\ env.SHARED_CONTACT_ID = ""
    /\ outage = {}
    /\ result.isError
    /\ calls = <<>>

\* a store call of this tool call was answered with a non-success status or
\* with a body that lacks the fields the handler reads
FailedCall ==
    \E k \in 1..Len(calls) :
        \/ calls[k].call \in outage
        \/ calls[k].call # "delete" /\ RepliesEmpty(outage, calls[k].call)
        \/ calls[k].call \in {"getById", "updateBody", "delete"}
           /\ ~HasId(before, calls[k].id)

\* the handler rejected the arguments
ValidationFailed ==
    \/ /\ \/ Done("getSummaries")
          \/ Done("handleGetSummaries")
          \/ Done("handleDeleteSharedSummary") /\ ~TruthyStr(Args.id)
       /\ PageFetched
       /\ DayOfWeekThrows(Args.dayOfWeek)
    \/ /\ Done("getSummaries")
       /\ PageFetched
       /\ Args.limit # Undefined
       /\ Args.limit[1] < 0
    \/ /\ Done("updateSharedSummary")
       /\ ~TruthyStr(Args.id)
       /\ ~TruthyStr(Args.query)

\* the handler found no engagement to act on
NotFound ==
    \/ DeleteByCriteria /\ Passing = {}
    \/ UpdateByQuery /\ QueryHits = {}

\* how the catch block of each handler begins its message
ErrorPrefix ==
    [createSharedSummary       |-> "Error creating summary: ",
     getSummaries              |-> "Error retrieving summaries: ",
     handleGetSummaries        |-> "Error retrieving summaries: ",
     updateSharedSummary       |-> "Error updating summary: ",
     handleDeleteSharedSummary |-> "Error deleting summary: "]

(* C14: uniform failure result.  In create, list, update and delete alike,   *)
(* every failure after the configuration check (a store call answered with  *)
(* a non-success status or without the expected fields, rejected arguments,  *)
(* nothing found) ends the call with a result that carries the error flag    *)
(* and the handler's message, followed by the cause; a call that met no      *)
(* failure ends with a result without the flag; no call ends otherwise.      *)
C14_UniformFailure ==
    (pc = "done" /\ request.handler \in Operations /\ ConfigOk) =>
        IF FailedCall \/ ValidationFailed \/ NotFound
        THEN /\ result.isError
             /\ StartsWith(result.text, ErrorPrefix[request.handler])
             /\ Len(result.text) > Len(ErrorPrefix[request.handler])
        ELSE /\ ~result.isError
             /\ request.handler \notin {"getSummaries", "handleGetSummaries"}
                => result.text # ""

\* the store created the engagement but answered without it: the create
\* ended with the TypeError as an error-flagged result
C14_Witness ==
    /\ Done("createSharedSummary")
    /\ ConfigOk
    /\ outage = {EmptyReply("create")}
    /\ result.isError
    /\ result.text = "Error creating summary: " \o TypeErrorReading("id")

\* the optional argument is present and not the empty string
NonEmpty(o) == o # Undefined /\ o[1] # ""

(* C15: update needs a selector.  Called with neither a non-empty id nor a   *)
(* non-empty query, the update fails with an error-flagged result that asks  *)
(* for an id or a query and issues no listPage, getById or updateBody call,  *)
(* whatever title, summary and author are supplied.                          *)
C15_UpdateNeedsSelector ==
    (/\ Done("updateSharedSummary")
     /\ ConfigOk
     /\ ~NonEmpty(Args.id)
     /\ ~NonEmpty(Args.query)) =>
        /\ result.isError
        /\ result.text = "Error updating summary: Please provide an Engagement ID "
                         \o "or a search query to locate the summary note."
        /\ calls = <<>>
        /\ store = before

\* an update that brings a title and a summary, with id and query both the
\* empty string, on a store that holds an engagement
C15_Witness ==
    /\ Done("updateSharedSummary")
    /\ ConfigOk
    /\ Args.id = Some("")
    /\ Args.query = Some("")
    /\ NonEmpty(Args.title)
    /\ NonEmpty(Args.summary)
    /\ Len(before) > 0
    /\ outage = {}
    /\ result.isError
    /\ calls = <<>>

\* the three labels of the encoded form
Labels == <<"Title: ", "Summary: ", "Author: ">>

\* the positions of the lines that begin with the label
LinesWith(lines, label) == {i \in 1..Len(lines) : StartsWith(lines[i], label)}

\* what a lenient decode gives for one label: the rest of the last line that
\* begins with it, the empty string when there is none
Decoded(lines, label) ==
    LET with == LinesWith(lines, label)
    IN  IF with = {} THEN ""
        ELSE LET line == lines[CHOOSE i \in with : \A j \in with : j <= i]
             IN  SubSeq(line, Len(label) + 1, Len(line))

\* a label has no line, or a line begins with no label
Foreign(lines) ==
    \/ \E n \in 1..3 : LinesWith(lines, Labels[n]) = {}
    \/ \E i \in 1..Len(lines) : \A n \in 1..3 : ~StartsWith(lines[i], Labels[n])

(* C16: lenient decoding.  When the body fetched for an update lacks one of  *)
(* the three label lines, or holds lines that begin with no label, the       *)
(* decode gives the empty string for each absent field and passes over the   *)
(* other lines, and the update merges and writes without an error.           *)
C16_LenientDecode ==
    (/\ Done("updateSharedSummary")
     /\ ConfigOk
     /\ outage = {}
     /\ NonEmpty(Args.id)
     /\ HasId(before, Args.id[1])) =>
        LET old == Split(RecordOf(before, Args.id[1]).body, "\n")
        IN  Foreign(old) =>
                /\ ~result.isError
                /\ calls = <<Call("getById", Args.id[1]), Call("updateBody", Args.id[1])>>
                /\ RecordOf(store, Args.id[1]).body
                       = noteBody(Written(Args.title, Decoded(old, Labels[1])),
                                  Written(Args.summary, Decoded(old, Labels[2])),
                                  Written(Args.author, Decoded(old, Labels[3])))

\* a note without any label line got a title: the update succeeded and wrote
\* that title with an empty summary and an empty author
C16_Witness ==
    /\ Done("updateSharedSummary")
    /\ before = <<[id |-> "1", timestamp |-> At(19786, 9, 30),
                   body |-> "call the customer back"]>>
    /\ Args.title = Some("a")
    /\ ~NonEmpty(Args.summary)
    /\ Args.author = Undefined
    /\ ~result.isError
    /\ store[1].body = "Title: a\nSummary: \nAuthor: "

\* the criteria of a delete as a listing takes them, the limit 1 when unset
ListingCriteria ==
    [date |-> Args.date, dayOfWeek |-> Args.dayOfWeek, timeRange |-> Args.timeRange,
     limit |-> IF Args.limit = Undefined THEN Some(1) ELSE Args.limit]

\* what getSummaries returns for those criteria on the page the delete fetched
SameListing == getSummaries(before, env, tz, ListingCriteria, {}).result

(* C17: shared filter engine.  For every fetched page and every criteria     *)
(* (date, dayOfWeek, timeRange, limit) the delete without id resolves the    *)
(* first record of what the listing returns for the same criteria, with the  *)
(* limit 1 when unset, and its resolution fails exactly when that listing    *)
(* fails or is empty.                                                        *)
C17_SharedEngine ==
    (/\ Done("handleDeleteSharedSummary")
     /\ ConfigOk
     /\ ~NonEmpty(Args.id)
     /\ outage = {}) =>
        IF SameListing.isError \/ SameListing.results = <<>>
        THEN result.isError /\ calls = <<Call("listPage", "")>>
        ELSE calls = <<Call("listPage", ""), Call("delete", SameListing.results[1].id)>>

\* the slots whose handler has started and not yet returned
Running == {slot \in DOMAIN inflight : inflight[slot].pc \in {"getRes", "resUpdate"}}

\* two handlers have returned success for updates of the same engagement, one
\* with a title alone and one with a summary alone
BothUpdated(a, b) ==
    /\ inflight[a].pc = "done" /\ ~inflight[a].result.isError
    /\ inflight[b].pc = "done" /\ ~inflight[b].result.isError
    /\ inflight[a].arguments.id = inflight[b].arguments.id
    /\ NonEmpty(inflight[a].arguments.title) /\ ~NonEmpty(inflight[a].arguments.summary)
    /\ NonEmpty(inflight[b].arguments.summary) /\ ~NonEmpty(inflight[b].arguments.title)

(* C18: operations do not overlap.  A tool call is accepted only when the    *)
(* one before has returned; between an update's read of an engagement and    *)
(* its write no other call's store call on that engagement takes place; and  *)
(* of two updates that set different fields of one engagement both are in    *)
(* the stored body.                                                          *)
C18_NoOverlap ==
    /\ Cardinality(Running) <= 1
    /\ \A slot \in DOMAIN inflight : ~inflight[slot].crossed
    /\ \A a, b \in DOMAIN inflight :
           BothUpdated(a, b) =>
               LET now == ParseBody(RecordOf(store, inflight[a].arguments.id[1]).body)
               IN  /\ now.title = inflight[a].arguments.title[1]
                   /\ now.summary = inflight[b].arguments.summary[1]

\* a delete without id and without criteria whose page request was answered
DefaultDelete ==
    /\ Done("handleDeleteSharedSummary")
    /\ ConfigOk
    /\ ~NonEmpty(Args.id)
    /\ Args.date = Undefined /\ Args.dayOfWeek = Undefined
    /\ Args.timeRange = Undefined /\ Args.limit = Undefined
    /\ outage = {}

\* the timestamps of the page are distinct
DistinctStamps(page) ==
    \A i, j \in 1..Len(page) : i # j => page[i].timestamp # page[j].timestamp

\* one such delete removes the newest engagement of the store as it is now
DrainStep ==
    (DefaultDelete /\ DistinctStamps(before)) =>
        IF before = <<>>
        THEN result.isError /\ calls = <<Call("listPage", "")>> /\ store = before
        ELSE \E i \in 1..Len(before) :
                 /\ \A j \in 1..Len(before) : before[j].timestamp <= before[i].timestamp
                 /\ calls = <<Call("listPage", ""), Call("delete", before[i].id)>>
                 /\ ~result.isError
                 /\ store = Without(before, i)

\* such a delete has just removed the engagement id, which was created at ts
Removed(id, ts) ==
    /\ DefaultDelete
    /\ ~result.isError
    /\ HasId(before, id)
    /\ RecordOf(before, id).timestamp = ts
    /\ calls[Len(calls)] = Call("delete", id)

\* a later delete does not name id again and removes an older engagement
Later(id, ts) ==
    (DefaultDelete /\ ~HasId(before, id)) =>
        \A k \in 1..Len(calls) :
            calls[k].call = "delete" =>
                /\ calls[k].id # id
                /\ HasId(before, calls[k].id)
                /\ RecordOf(before, calls[k].id).timestamp < ts

\* the ids of the store that the deletes empty
DrainIds == {NumberToString(n) : n \in 1..MaxDrain}

(* C19: fresh resolution on every request.  On a store of m engagements with *)
(* distinct createdAt, consecutive deletes without id and without filters    *)
(* each fetch the page anew and remove the newest engagement left: k <= m    *)
(* deletes remove the k most recent ones, one per call, newest first, and no *)
(* call names an id that an earlier call deleted.                            *)
C19_FreshResolution ==
    /\ []DrainStep
    /\ \A id \in DrainIds : \A ts \in Instants : [](Removed(id, ts) => []Later(id, ts))

\* the second or a later delete in a row has just emptied the store
C19_Witness ==
    /\ DefaultDelete
    /\ ~result.isError
    /\ nextId >= 3
    /\ Len(before) = 1
    /\ store = <<>>

-----------------------------------------------------------------------------
\* the names of the store calls of this tool call, in the order issued
CallNames == [k \in 1..Len(calls) |-> calls[k].call]

IsPrefix(p, q) == Len(p) <= Len(q) /\ SubSeq(q, 1, Len(p)) = p

\* the k-th store call of this tool call was answered with a non-success
\* status or with a body that lacks the fields the handler reads
CallFailed(k) ==
    \/ calls[k].call \in outage
    \/ RepliesEmpty(outage, calls[k].call)
    \/ calls[k].call \in {"getById", "updateBody"} /\ ~HasId(before, calls[k].id)

\* the store calls an update may issue, in order
UpdateCalls ==
    IF NonEmpty(Args.id) THEN <<"getById", "updateBody">>
    ELSE <<"listPage", "getById", "updateBody">>

(* C20: call order of one update without retry.  The store calls of one     *)
(* update are a prefix of listPage (only without an id), getById, updateBody;*)
(* none is issued twice; the read and the write name the same engagement,    *)
(* the supplied id when there is one; updateBody follows a getById that      *)
(* succeeded; no store call follows one that failed; and the store changes   *)
(* only when updateBody was issued.                                          *)
C20_CallOrder ==
    Done("updateSharedSummary") =>
        /\ IsPrefix(CallNames, UpdateCalls)
        /\ \A j, k \in 1..Len(calls) : j < k => calls[j].call # calls[k].call
        /\ \A j, k \in 1..Len(calls) :
               (calls[j].call # "listPage" /\ calls[k].call # "listPage") =>
                   calls[j].id = calls[k].id
        /\ \A k \in 1..Len(calls) :
               (NonEmpty(Args.id) /\ calls[k].call # "listPage") =>
                   calls[k].id = Args.id[1]
        /\ \A k \in 1..Len(calls) :
               calls[k].call = "updateBody" =>
                   /\ k > 1
                   /\ calls[k - 1].call = "getById"
                   /\ ~CallFailed(k - 1)
        /\ \A k \in 1..Len(calls) : CallFailed(k) => k = Len(calls)
        /\ store # before =>
               (calls # <<>> /\ calls[Len(calls)].call = "updateBody")

\* an update by query listed the page, read the engagement, and its write
\* was answered with a failure
C20_Witness ==
    /\ Done("updateSharedSummary")
    /\ ~NonEmpty(Args.id)
    /\ CallNames = <<"listPage", "getById", "updateBody">>
    /\ "updateBody" \in outage
    /\ result.isError
    /\ store = before

-----------------------------------------------------------------------------
\* the engagement at position i is, apart from its body, what it was before
SameIdentity(i) ==
    /\ store[i].id = before[i].id
    /\ store[i].timestamp = before[i].timestamp

\* the positions of the store whose body this tool call changed
Rewritten == {i \in 1..Len(store) : store[i].body # before[i].body}

(* C21: frame of update.  An update that succeeds changes only the body of   *)
(* the one engagement it names: the store keeps its length and order, every  *)
(* engagement keeps its id and timestamp, and every other engagement keeps   *)
(* its body.  An update that reports an error leaves the store as it was.    *)
C21_UpdateFrame ==
    Done("updateSharedSummary") =>
        /\ Len(store) = Len(before)
        /\ \A i \in 1..Len(store) : SameIdentity(i)
        /\ ~result.isError =>
               \A i \in Rewritten : calls # <<>> /\ store[i].id = LastId
        /\ result.isError => store = before

\* the part of C21 about the engagements the update does not name, and about
\* ids and timestamps, whatever the result
C21_OthersUntouched ==
    Done("updateSharedSummary") =>
        /\ Len(store) = Len(before)
        /\ \A i \in 1..Len(store) : SameIdentity(i)
        /\ \A i \in Rewritten :
               /\ calls # <<>>
               /\ calls[Len(calls)] = Call("updateBody", store[i].id)
               /\ "updateBody" \notin outage

\* an update reported an error although its write had changed the store
C21_ErrorAfterWrite ==
    /\ Done("updateSharedSummary")
    /\ result.isError
    /\ store # before
    /\ Len(before) = 2

-----------------------------------------------------------------------------
\* a field of the request holds no newline
NoNewline(supplied) == supplied = Undefined \/ NewlineFree(supplied[1])

\* what the same update request, sent once more, leaves behind
Again == updateSharedSummary(store, env, Args, {})

(* C22: update is idempotent for newline-free input.  After an update by id  *)
(* has succeeded with a title, summary and author that hold no newline,      *)
(* whatever the body it found, the same request sent again succeeds and      *)
(* leaves the stored body as the first one left it.                          *)
C22_Idempotent ==
    ( /\ Done("updateSharedSummary")
      /\ ~result.isError
      /\ NonEmpty(Args.id)
      /\ NoNewline(Args.title)
      /\ NoNewline(Args.summary)
      /\ NoNewline(Args.author) )
    => /\ ~Again.result.isError
       /\ Again.store = store

\* an update gave a summary that starts with a label to a note whose body was
\* not written by the codec; it changed the body, and a second one would not
C22_Witness ==
    /\ Done("updateSharedSummary")
    /\ ~result.isError
    /\ before = <<[id |-> "1", timestamp |-> At(19786, 9, 30),
                   body |-> "Author: Z\nTitle: Y"]>>
    /\ Args.id = Some("1")
    /\ Args.title = Undefined
    /\ Args.summary = Some("Author: d")
    /\ Args.author = Undefined
    /\ store[1].body = "Title: Y\nSummary: Author: d\nAuthor: Z"
    /\ Again.store = store

\* an author that holds a newline and a label makes the second update differ
C22_NewlineBreaks ==
    /\ Done("updateSharedSummary")
    /\ ~result.isError
    /\ ~NoNewline(Args.author)
    /\ Again.store # store

-----------------------------------------------------------------------------
\* exactly three lines, starting with "Title: ", "Summary: " and "Author: "
EncodedForm(body) ==
    LET lines == Split(body, "\n")
    IN  /\ Len(lines) = 3
        /\ \A i \in 1..3 : StartsWith(lines[i], Labels[i])

\* a create or an update has just written an engagement, from values that
\* hold no newline
WroteNewlineFree ==
    \/ /\ Done("createSharedSummary")
       /\ store # before
       /\ NewlineFree(Args.title)
       /\ NewlineFree(Args.summary)
       /\ NewlineFree(Args.author)
    \/ /\ Done("updateSharedSummary")
       /\ store # before
       /\ NoNewline(Args.title)
       /\ NoNewline(Args.summary)
       /\ NoNewline(Args.author)

(* C23: encoded form.  Every create and every update whose title, summary    *)
(* and author hold no newline leaves, in the engagement it wrote, a body of  *)
(* exactly three lines that start with "Title: ", "Summary: " and            *)
(* "Author: " in that order, whatever shape the body had before the update;  *)
(* the other engagements are not written.                                    *)
C23_EncodedForm ==
    /\ WroteNewlineFree =>
           /\ EncodedForm(RecordOf(store, LastId).body)
           /\ \A i \in 1..Len(before) :
                  before[i].id # LastId => store[i] = before[i]
    /\ (Done("updateSharedSummary") /\ NoNewline(Args.title)
        /\ NoNewline(Args.summary) /\ NoNewline(Args.author)) =>
           \A i \in 1..Len(store) :
               (i <= Len(before) /\ EncodedForm(before[i].body)) =>
                   EncodedForm(store[i].body)

\* an update without a title rewrote a body that had a line without label
\* between its title and its summary, and no author
C23_Witness ==
    /\ Done("updateSharedSummary")
    /\ ~result.isError
    /\ before = <<[id |-> "1", timestamp |-> At(19786, 9, 30),
                   body |-> "Title: X\nnote\nSummary: W"]>>
    /\ ~EncodedForm(before[1].body)
    /\ Args.title = Undefined
    /\ Args.summary = Undefined
    /\ Args.author = Some("e")
    /\ store[1].body = "Title: X\nSummary: W\nAuthor: e"
    /\ EncodedForm(store[1].body)

-----------------------------------------------------------------------------
\* the day number of the calendar date written YYYY-MM-DD, among the days the
\* instants of this model fall on
DayOfDate(date) ==
    CHOOSE d \in {DayNumber(ts) : ts \in Instants} :
        Split(ToISOString(At(d, 0, 0)), "T")[1] = date

\* the weekday name of that calendar date (1970-01-01 was a Thursday)
WeekdayOfDate(date) == DayNames[((DayOfDate(date) + 4) % 7) + 1]

\* the criteria of this tool call name a date and the weekday of that date
DateWithItsWeekday ==
    /\ TruthyStr(Args.date)
    /\ TruthyStr(Args.dayOfWeek)
    /\ ToLowerCase(Args.dayOfWeek[1]) = WeekdayOfDate(Args.date[1])

\* the criteria of this tool call without the dayOfWeek
DateAlone == [Args EXCEPT !.dayOfWeek = Undefined]

(* C24: date and dayOfWeek agree on the calendar day.  For every page and    *)
(* every server time zone, a listing with date = D and dayOfWeek = the       *)
(* weekday name of D returns the records that the listing with date = D      *)
(* alone returns, and a delete by those criteria issues the store calls that *)
(* the delete with date = D alone issues.                                    *)
C24_DateAndDayAgree ==
    /\ (Done("getSummaries") /\ DateWithItsWeekday) =>
           result = getSummaries(before, env, tz, DateAlone, {}).result
    /\ (Done("handleGetSummaries") /\ DateWithItsWeekday) =>
           result = handleGetSummaries(before, env, tz, DateAlone, {}).result
    /\ (Done("handleDeleteSharedSummary") /\ DateWithItsWeekday) =>
           calls = handleDeleteSharedSummary(before, env, tz, DateAlone, {}).calls

\* the same, for a server whose clock is on UTC
C24_AgreeOnUtc == tz = 0 => C24_DateAndDayAgree

\* a listing at UTC+05:30 with date 2024-03-03 and dayOfWeek sunday left out
\* the record of Sunday 2024-03-03 23:30Z
C24_DroppedByLocalDay ==
    /\ Done("getSummaries")
    /\ tz = 330
    /\ Args.date = Some("2024-03-03")
    /\ Args.dayOfWeek = Some("sunday")
    /\ before = PageOf(<<At(19785, 23, 30)>>)
    /\ ~result.isError
    /\ result.results = <<>>
    /\ getSummaries(before, env, tz, DateAlone, {}).result.results = before

=============================================================================
